---- MODULE Spec2Model ----
(***************************************************************************)
(* Model of the graphic-designer layout pipeline:                          *)
(*   format_graphic_data  (grouping, section ordering, row planning)       *)
(*   calculate_offset_rows / calculate_offset_element_totals (row planner) *)
(*   the card placement loop of lay_out_body                               *)
(*                                                                         *)
(* Horizontal coordinates are kept exact by scaling: every x value of the  *)
(* model is the pixel value multiplied by 2 * elements_per_row, so that    *)
(* width / elements_per_row and half of it are integers.                   *)
(***************************************************************************)
EXTENDS Integers, Sequences, FiniteSets

VARIABLES
    pc,                 \* position of the program
    elements,           \* planner: element count of the section
    elements_per_row,   \* configured elements per row
    offset_rows,        \* TRUE = Offset flow mode, FALSE = Regular
    rows,               \* planner: row count assigned to the section
    sequence,           \* calculate_offset_element_totals: the list built
    i,                  \* calculate_offset_element_totals: loop counter
    df,                 \* format_graphic_data: input table
    section_sort_by,    \* 'section', 'elements' or a list of names
    section_sort_order, \* 'ascending', 'descending' or None
    df_element,         \* returned element table
    df_section,         \* returned section table
    error,              \* the exception raised, if any
    args,               \* arguments of lay_out_body / of draw_element
    dims,               \* lay_out_body: total_rows, section_heads, draw area
    x,                  \* lay_out_body: x pointer
    y,                  \* lay_out_body: y pointer
    section_i,          \* lay_out_body: section being laid out (1-based)
    element_i,          \* lay_out_body: cards drawn in the current section
    scene               \* the nodes appended so far, in order

vars == <<pc, elements, elements_per_row, offset_rows, rows, sequence, i,
          df, section_sort_by, section_sort_order, df_element,
          df_section, error, args, dims, x, y, section_i, element_i, scene>>

plannerVars == <<elements, rows, sequence, i>>
layoutVars == <<args, dims, x, y, section_i, element_i, scene>>
groupVars == <<df, section_sort_by, section_sort_order, df_element,
               df_section, error>>

----------------------------------------------------------------------------
(* Bounds *)

MaxElements == 24
MaxPerRow == 5
MaxRecords == 3
GroupPerRow == 2
MaxMargin == 1
MaxCount == 3

(* Defaults of lay_out_body *)

body_width == 800
draw_area_margin_left == 10
draw_area_margin_right == 10
draw_area_margin_top == 10
draw_area_margin_bottom == 10
section_head_width == 100
section_head_text_size == 20
section_head_padding_top == 5
section_head_padding_left == 5
element_height == 50

(* Head height the driver gives for top heads (the default is None) *)

section_head_height == 35

----------------------------------------------------------------------------
(* Generic helpers *)

Last(s) == s[Len(s)]

Range(s) == {s[k] : k \in 1..Len(s)}

\* list.index(v): 0-based position of the first occurrence
ListIndex(s, v) == (CHOOSE k \in 1..Len(s) :
                        s[k] = v /\ \A j \in 1..(k - 1) : s[j] # v) - 1

----------------------------------------------------------------------------
(* Row planner *)

\* lambda x: -(-x // elements_per_row)
regular_rows_floor(count, n) == count \div n

regular_rows(count, n) == -((-count) \div n)

calculate_offset_rows_strict(e, n) ==
    LET complete_row_pairs == e \div (2 * n - 1)
        complete_row_pair_elements == complete_row_pairs * (2 * n - 1)
        remaining_elements == e - complete_row_pair_elements
    IN  IF remaining_elements = 0 THEN 2 * complete_row_pairs
        ELSE IF remaining_elements < n THEN 2 * complete_row_pairs + 1
        ELSE 2 * complete_row_pairs + 2

calculate_offset_rows_even_pairs(e, n) ==
    LET complete_row_pairs == e \div (2 * n)
        complete_row_pair_elements == complete_row_pairs * (2 * n)
        remaining_elements == e - complete_row_pair_elements
    IN  IF remaining_elements = 0 THEN 2 * complete_row_pairs
        ELSE IF remaining_elements <= n THEN 2 * complete_row_pairs + 1
        ELSE 2 * complete_row_pairs + 2

calculate_offset_rows(e, n) ==
    LET complete_row_pairs == e \div (2 * n - 1)
        complete_row_pair_elements == complete_row_pairs * (2 * n - 1)
        remaining_elements == e - complete_row_pair_elements
    IN  IF remaining_elements = 0 THEN 2 * complete_row_pairs
        ELSE IF remaining_elements <= n THEN 2 * complete_row_pairs + 1
        ELSE 2 * complete_row_pairs + 2

\* body of the while loop of calculate_offset_element_totals
next_term_swapped(s, k, n) ==
    IF k % 2 # 0 THEN Last(s) + n ELSE Last(s) + n - 1

next_term(s, k, n) ==
    IF k % 2 # 0 THEN Last(s) + n - 1 ELSE Last(s) + n

RECURSIVE totals_loop(_, _, _, _)
totals_loop(s, k, e, n) ==
    IF Last(s) < e
    THEN totals_loop(Append(s, next_term(s, k, n)), k + 1, e, n)
    ELSE s

calculate_offset_element_totals(e, n) == totals_loop(<<n>>, 1, e, n)

----------------------------------------------------------------------------
(* Card placement loop of lay_out_body, for one section.                   *)
(* x0, w are scaled by 2 * elements_per_row; w is the scaled card width.   *)

\* element_dim['width'], scaled: (section body width / n) * 2n
element_width(section_body_width) == 2 * section_body_width

\* drawn is the value of element_i after its increment at the top of the loop
RECURSIVE place(_, _, _, _, _, _, _, _, _, _)
place(drawn, e, n, offset, element_totals, x0, w, h, element_x, element_y) ==
    IF drawn > e THEN <<>>
    ELSE
      LET at_total == drawn \in Range(element_totals)
          next_x ==
            IF offset
            THEN IF at_total
                 THEN IF ListIndex(element_totals, drawn) % 2 # 0
                      THEN x0
                      ELSE x0 + w \div 2
                 ELSE element_x + w
            ELSE IF drawn % n = 0 THEN x0 ELSE element_x + w
          next_y ==
            IF offset
            THEN IF at_total THEN element_y + h ELSE element_y
            ELSE IF drawn % n = 0 THEN element_y + h ELSE element_y
      IN  <<[x |-> element_x, y |-> element_y]>> \o
          place(drawn + 1, e, n, offset, element_totals, x0, w, h,
                next_x, next_y)

draw_elements(e, n, offset, element_totals, x0, y0, w, h) ==
    place(1, e, n, offset, element_totals, x0, w, h, x0, y0)

----------------------------------------------------------------------------
(* Tables.  A row of the input table is                                    *)
(*   [index |-> its row label, section |-> key or Null, element_title]     *)
(* (subtitle and image travel with the title and are not listed).          *)

Null == "NaN"
Keys == {"A", "B", "C"}

\* order of section names under string comparison
key_order(s) == CASE s = "A" -> 1 [] s = "B" -> 2 [] s = "C" -> 3
                  [] OTHER -> 4

\* df[c]
Column(t, c) == [k \in 1..Len(t) |-> t[k][c]]

Reverse(s) == [k \in 1..Len(s) |-> s[Len(s) + 1 - k]]

\* t.iloc[indexer], indexer 1-based
take(t, indexer) == [k \in 1..Len(indexer) |-> t[indexer[k]]]

\* Series.unique(): distinct values in order of first appearance
RECURSIVE unique(_)
unique(col) ==
    IF col = <<>> THEN <<>>
    ELSE LET rest == unique(SubSeq(col, 1, Len(col) - 1))
         IN  IF Last(col) \in Range(rest) THEN rest
             ELSE Append(rest, Last(col))

\* stable ascending argsort of a list of integers
argsort(items) ==
    LET n == Len(items)
        before(a, b) == \/ items[a] < items[b]
                        \/ items[a] = items[b] /\ a < b
        rank == [a \in 1..n |-> Cardinality({b \in 1..n : before(b, a)}) + 1]
    IN  [k \in 1..n |-> CHOOSE a \in 1..n : rank[a] = k]

\* the indexer DataFrame.sort_values uses for one column: descending order
\* reverses, sorts ascending and reverses back, so ties keep their order
nargsort(items, ascending) ==
    IF ascending THEN argsort(items)
    ELSE LET n == Len(items)
             r == argsort(Reverse(items))
         IN  Reverse([k \in 1..n |-> n + 1 - r[k]])

sort_values(t, items, ascending) == take(t, nargsort(items, ascending))

\* code of a value in a Categorical; values outside the categories sort last
category_code(categories, v) ==
    IF v \in Range(categories) THEN ListIndex(categories, v)
    ELSE Len(categories)

----------------------------------------------------------------------------
(* format_graphic_data *)

Raise(kind, values) ==
    [error |-> [kind |-> kind, values |-> values],
     df_element |-> <<>>, df_section |-> <<>>]

\* df[section_col].isnull().any()
missing_values_unchecked(t) == FALSE

missing_values(t) == \E k \in 1..Len(t) : t[k].section = Null

\* [x for x in section_sort_by if x not in df[section_col].unique()]
values_not_in_data_unchecked(sort_list, t) == <<>>

values_not_in_data_whole_list(sort_list, t) ==
    LET present == Range(unique(Column(t, "section")))
    IN  IF \E k \in 1..Len(sort_list) : sort_list[k] \notin present
        THEN sort_list ELSE <<>>

values_not_in_data(sort_list, t) ==
    LET present == Range(unique(Column(t, "section")))
    IN  SelectSeq(sort_list, LAMBDA v : v \notin present)

\* [x for x in df[section_col].unique() if x not in section_sort_by]
values_not_in_sort_by(sort_list, t) ==
    SelectSeq(unique(Column(t, "section")),
              LAMBDA v : v \notin Range(sort_list))

\* df_element.dropna(subset='section')
dropna(t) == SelectSeq(t, LAMBDA r : r.section # Null)

\* df_element.groupby('section').size(): one row per observed key, in key order
groupby_size(t) ==
    LET names == Range(Column(t, "section"))
        sorted == [k \in 1..Cardinality(names) |->
                     CHOOSE s \in names :
                       Cardinality({u \in names :
                                       key_order(u) < key_order(s)}) = k - 1]
    IN  [k \in 1..Cardinality(names) |->
            [section |-> sorted[k],
             elements |-> Cardinality({j \in 1..Len(t) :
                                          t[j].section = sorted[k]})]]

\* the section table sorted by the policy
sort_sections(sections, sort_by, sort_order) ==
    IF sort_by.kind = "section"
    THEN sort_values(sections,
                     [k \in 1..Len(sections) |-> key_order(sections[k].section)],
                     sort_order = "ascending")
    ELSE IF sort_by.kind = "elements"
    THEN sort_values(sections, Column(sections, "elements"),
                     sort_order = "ascending")
    ELSE sort_values(sections,
                     [k \in 1..Len(sections) |->
                         category_code(sort_by.list, sections[k].section)],
                     TRUE)

\* df_section['rows'] = ...
add_rows(sections, n, offset) ==
    [k \in 1..Len(sections) |->
        [section |-> sections[k].section,
         elements |-> sections[k].elements,
         rows |-> IF offset
                  THEN calculate_offset_rows(sections[k].elements, n)
                  ELSE regular_rows(sections[k].elements, n)]]

\* sort_values(by=['section', 'index']) on the categorical section column,
\* then the index column is dropped
sort_elements_by_position(t, categories) ==
    LET n == Len(t)
        code(a) == category_code(categories, t[a].section)
        before(a, b) == \/ code(a) < code(b)
                        \/ code(a) = code(b) /\ a < b
        rank == [a \in 1..n |-> Cardinality({b \in 1..n : before(b, a)}) + 1]
        at == [k \in 1..n |-> CHOOSE a \in 1..n : rank[a] = k]
    IN  [k \in 1..n |-> [section |-> t[at[k]].section,
                         element_title |-> t[at[k]].element_title]]

sort_elements_by_index_only(t, categories) ==
    LET n == Len(t)
        before(a, b) == \/ t[a].index < t[b].index
                        \/ t[a].index = t[b].index /\ a < b
        rank == [a \in 1..n |-> Cardinality({b \in 1..n : before(b, a)}) + 1]
        at == [k \in 1..n |-> CHOOSE a \in 1..n : rank[a] = k]
    IN  [k \in 1..n |-> [section |-> t[at[k]].section,
                         element_title |-> t[at[k]].element_title]]

sort_elements(t, categories) ==
    LET n == Len(t)
        code == [a \in 1..n |-> category_code(categories, t[a].section)]
        before(a, b) ==
            \/ code[a] < code[b]
            \/ code[a] = code[b] /\ t[a].index < t[b].index
            \/ code[a] = code[b] /\ t[a].index = t[b].index /\ a < b
        rank == [a \in 1..n |-> Cardinality({b \in 1..n : before(b, a)}) + 1]
        at == [k \in 1..n |-> CHOOSE a \in 1..n : rank[a] = k]
    IN  [k \in 1..n |-> [section |-> t[at[k]].section,
                         element_title |-> t[at[k]].element_title]]

\* pd.Categorical(..., categories=section_sort_by) refuses repeated categories
categories_not_unique(sort_list) ==
    \E a, b \in 1..Len(sort_list) : a # b /\ sort_list[a] = sort_list[b]

format_graphic_data(t, n, offset, sort_by, sort_order) ==
    IF missing_values(t)
    THEN Raise("MissingValues", <<>>)
    ELSE IF sort_by.kind = "list"
            /\ values_not_in_data(sort_by.list, t) # <<>>
    THEN Raise("SortByNotInData", values_not_in_data(sort_by.list, t))
    ELSE IF sort_by.kind = "list"
            /\ values_not_in_sort_by(sort_by.list, t) # <<>>
    THEN Raise("DataNotInSortBy", values_not_in_sort_by(sort_by.list, t))
    ELSE IF sort_by.kind = "list" /\ categories_not_unique(sort_by.list)
    THEN Raise("CategoriesNotUnique", <<>>)
    ELSE
      LET elems == dropna(t)
          sections == add_rows(
              sort_sections(groupby_size(elems), sort_by, sort_order),
              n, offset)
      IN  [error |-> [kind |-> "none", values |-> <<>>],
           df_element |-> sort_elements(elems, Column(sections, "section")),
           df_section |-> sections]

----------------------------------------------------------------------------
(* Values shared by the specifications *)

None == "None"

NoError == [kind |-> "none", values |-> <<>>]

\* value of the lay_out_body variables before lay_out_body is called
LayoutUnused ==
    /\ args = <<>>
    /\ dims = <<>>
    /\ x = 0
    /\ y = 0
    /\ section_i = 0
    /\ element_i = 0
    /\ scene = <<>>

\* body width of a section when section_head_position is 'top'
section_body_width ==
    body_width - draw_area_margin_left - draw_area_margin_right

----------------------------------------------------------------------------
(* Row planner of one section, as a program: rows are planned             *)
(* (format_graphic_data), then lay_out_body builds the element totals      *)
(* (Offset mode only).                                                     *)

PlannerInit ==
    /\ pc = "start"
    /\ elements \in 0..MaxElements
    /\ elements_per_row \in 1..MaxPerRow
    /\ offset_rows \in BOOLEAN
    /\ rows = 0
    /\ sequence = <<>>
    /\ i = 0
    /\ df = <<>>
    /\ section_sort_by = "elements"
    /\ section_sort_order = None
    /\ df_element = <<>>
    /\ df_section = <<>>
    /\ error = NoError
    /\ LayoutUnused

\* df_section['rows'] = ... for one section
PlanRows ==
    /\ pc = "start"
    /\ rows' = IF offset_rows
               THEN calculate_offset_rows(elements, elements_per_row)
               ELSE regular_rows(elements, elements_per_row)
    /\ pc' = "planned"
    /\ UNCHANGED <<elements, elements_per_row, offset_rows, sequence, i>>
    /\ UNCHANGED groupVars
    /\ UNCHANGED layoutVars

\* calculate_offset_element_totals: sequence = [elements_per_row]; i = 1
TotalsInit ==
    /\ pc = "planned"
    /\ offset_rows
    /\ sequence' = <<elements_per_row>>
    /\ i' = 1
    /\ pc' = "loop"
    /\ UNCHANGED <<elements, elements_per_row, offset_rows, rows>>
    /\ UNCHANGED groupVars
    /\ UNCHANGED layoutVars

\* one iteration of: while sequence[-1] < elements
TotalsStep ==
    /\ pc = "loop"
    /\ Last(sequence) < elements
    /\ sequence' = Append(sequence, next_term(sequence, i, elements_per_row))
    /\ i' = i + 1
    /\ UNCHANGED <<pc, elements, elements_per_row, offset_rows, rows>>
    /\ UNCHANGED groupVars
    /\ UNCHANGED layoutVars

\* loop exit: return sequence
TotalsReturn ==
    /\ pc = "loop"
    /\ ~(Last(sequence) < elements)
    /\ pc' = "totals"
    /\ UNCHANGED <<elements, elements_per_row, offset_rows, rows, sequence, i>>
    /\ UNCHANGED groupVars
    /\ UNCHANGED layoutVars

PlannerNext ==
    \/ PlanRows
    \/ TotalsInit
    \/ TotalsStep
    \/ TotalsReturn

SpecPlanner == PlannerInit /\ [][PlannerNext]_vars

\* the code is sequential and runs each call to completion
FairSpecPlanner == SpecPlanner /\ WF_vars(PlannerNext)

----------------------------------------------------------------------------
(* The grouping program: one call of format_graphic_data on a table.       *)
(* The input tables are the tables of up to MaxRecords rows with distinct  *)
(* row labels 0..n-1 in any row order (a table and its shuffled copies).   *)

TitleOf(label) == <<"t0", "t1", "t2", "t3", "t4", "t5">>[label + 1]

Labelings(n) ==
    {lab \in [1..n -> 0..(n - 1)] :
        \A a, b \in 1..n : a # b => lab[a] # lab[b]}

TablesOf(n) ==
    {[k \in 1..n |-> [index |-> lab[k],
                      section |-> sec[lab[k] + 1],
                      element_title |-> TitleOf(lab[k])]] :
        lab \in Labelings(n), sec \in [1..n -> Keys \cup {Null}]}

Tables == UNION {TablesOf(n) : n \in 1..MaxRecords}

SortLists == UNION {[1..m -> Keys] : m \in 0..Cardinality(Keys)}

SortPolicies ==
    {[kind |-> k, list |-> <<>>] : k \in {"section", "elements"}}
        \cup {[kind |-> "list", list |-> l] : l \in SortLists}

Init ==
    /\ pc = "start"
    /\ df \in Tables
    /\ section_sort_by \in SortPolicies
    /\ section_sort_order \in
          IF section_sort_by.kind = "list" THEN {None}
          ELSE {"ascending", "descending", None}
    /\ elements_per_row = GroupPerRow
    /\ offset_rows \in BOOLEAN
    /\ df_element = <<>>
    /\ df_section = <<>>
    /\ error = NoError
    /\ elements = 0
    /\ rows = 0
    /\ sequence = <<>>
    /\ i = 0
    /\ LayoutUnused

FormatGraphicData ==
    /\ pc = "start"
    /\ \E r \in {format_graphic_data(df, elements_per_row, offset_rows,
                                      section_sort_by, section_sort_order)} :
           /\ error' = r.error
           /\ df_element' = r.df_element
           /\ df_section' = r.df_section
           /\ pc' = IF r.error.kind = "none" THEN "formatted" ELSE "raised"
    /\ UNCHANGED <<df, section_sort_by, section_sort_order, elements_per_row,
                   offset_rows>>
    /\ UNCHANGED plannerVars
    /\ UNCHANGED layoutVars

Next == FormatGraphicData

Spec == Init /\ [][Next]_vars

----------------------------------------------------------------------------
(* Row planner properties *)

\* ceil(e / n): the least r with r * n >= e
CeilDiv(e, n) ==
    CHOOSE r \in 0..e : r * n >= e /\ \A q \in 0..(r - 1) : q * n < e

\* elements that r rows of alternating capacity n, n-1, n, ... can hold
Capacity(r, n) == ((r + 1) \div 2) * n + (r \div 2) * (n - 1)

\* least number of alternating rows that hold e elements (n >= 2)
LeastRows(e, n) ==
    CHOOSE r \in 0..e :
        Capacity(r, n) >= e /\ \A q \in 0..(r - 1) : Capacity(q, n) < e

Planned == pc \in {"planned", "loop", "totals"}
TotalsBuilt == pc = "totals" /\ offset_rows

\* C1: in Regular mode the row count assigned to a section is
\* ceil(element_count / elements_per_row), for every count >= 0 and every
\* elements_per_row >= 1.
C1_RegularRowsAreCeil ==
    (Planned /\ ~offset_rows) => rows = CeilDiv(elements, elements_per_row)

C1_Witness ==
    /\ Planned /\ ~offset_rows
    /\ elements = 11 /\ elements_per_row = 5 /\ rows = 3

\* C2 as stated: with 5 per row, calculate_offset_rows gives 1 row for 5
\* elements, 2 for 9, 2 for 10 and 3 for 11.
C2_OffsetBoundariesAsStated ==
    (Planned /\ offset_rows /\ elements_per_row = 5) =>
        /\ elements = 5 => rows = 1
        /\ elements = 9 => rows = 2
        /\ elements = 10 => rows = 2
        /\ elements = 11 => rows = 3

\* C2 amended: with 5 per row, calculate_offset_rows gives 1 row for 5
\* elements, 2 for 9, 3 for 10 (two rows hold only 5 + 4 = 9) and 3 for 11.
C2_OffsetBoundaries ==
    (Planned /\ offset_rows /\ elements_per_row = 5) =>
        /\ elements = 5 => rows = 1
        /\ elements = 9 => rows = 2
        /\ elements = 10 => rows = 3
        /\ elements = 11 => rows = 3

C2_Witness ==
    /\ Planned /\ offset_rows
    /\ elements_per_row = 5 /\ elements = 10 /\ rows = 3

\* C3: for N >= 2, calculate_offset_rows(e, N) is the least number of rows of
\* alternating capacity N, N-1, N, ... that hold e elements, and for e >= 1 it
\* is the length of the list calculate_offset_element_totals(e, N) returns.
C3_OffsetRowsAreLeast ==
    (Planned /\ offset_rows /\ elements_per_row >= 2) =>
        /\ rows = LeastRows(elements, elements_per_row)
        /\ (TotalsBuilt /\ elements >= 1) =>
              /\ Len(sequence) = rows
              /\ Len(calculate_offset_element_totals(elements,
                                                     elements_per_row)) = rows

C3_Witness ==
    /\ TotalsBuilt /\ elements_per_row = 5
    /\ elements = 10 /\ Len(sequence) = 3 /\ rows = 3

\* shape of the list of element totals
StrictlyIncreasing(s) == \A k \in 2..Len(s) : s[k - 1] < s[k]
NonDecreasing(s) == \A k \in 2..Len(s) : s[k - 1] <= s[k]
AlternatingSteps(s, n) ==
    /\ Len(s) >= 1
    /\ s[1] = n
    /\ \A k \in 2..Len(s) :
          s[k] - s[k - 1] = (IF k % 2 = 0 THEN n - 1 ELSE n)
StartsFive(s) ==
    \A k \in 1..Len(s) : k <= 5 => s[k] = <<5, 9, 14, 18, 23>>[k]

\* C4 as stated (its safety part): for every N >= 1 the returned list is
\* strictly increasing, starts at N, steps alternately by N-1 and N, ends
\* >= e, and for N = 5 starts 5, 9, 14, 18, 23.
C4_TotalsAsStated ==
    TotalsBuilt =>
        /\ StrictlyIncreasing(sequence)
        /\ AlternatingSteps(sequence, elements_per_row)
        /\ Last(sequence) >= elements
        /\ elements_per_row = 5 => StartsFive(sequence)

\* C4 amended: for every N >= 1 and e >= 0 the loop terminates and the list
\* is non-decreasing (strictly increasing when N >= 2), starts at N, steps
\* alternately by N-1 and N, ends >= e, and for N = 5 starts 5, 9, 14, 18, 23.
C4_TotalsShape ==
    TotalsBuilt =>
        /\ NonDecreasing(sequence)
        /\ elements_per_row >= 2 => StrictlyIncreasing(sequence)
        /\ AlternatingSteps(sequence, elements_per_row)
        /\ Last(sequence) >= elements
        /\ elements_per_row = 5 => StartsFive(sequence)
        /\ sequence = calculate_offset_element_totals(elements,
                                                      elements_per_row)

C4_Totals ==
    /\ []C4_TotalsShape
    /\ (pc = "loop") ~> (pc = "totals")

C4_Witness ==
    /\ TotalsBuilt /\ elements_per_row = 5
    /\ sequence = <<5, 9, 14, 18, 23>>

\* the card positions the pointer arithmetic of the element loop yields for
\* one section drawn at (0, 0) with the default sizes
PointerPositions(e, n, offset, element_totals) ==
    draw_elements(e, n, offset, element_totals, 0, 0,
                  element_width(section_body_width), element_height)

\* C5: with elements_per_row = 1, Offset mode gives the row count and the
\* card positions of Regular mode with elements_per_row = 1, and no card is
\* shifted horizontally.
C5_OffsetOneIsRegular ==
    (TotalsBuilt /\ elements_per_row = 1) =>
        /\ rows = regular_rows(elements, 1)
        /\ PointerPositions(elements, 1, TRUE, sequence)
              = PointerPositions(elements, 1, FALSE, <<>>)
        /\ \A k \in 1..elements :
              PointerPositions(elements, 1, TRUE, sequence)[k].x = 0

----------------------------------------------------------------------------
(* Grouping properties *)

Called == pc \in {"formatted", "raised"}
HasMissingKey == \E k \in 1..Len(df) : df[k].section = Null
DataKeys == {df[k].section : k \in 1..Len(df)}
ListPolicy == section_sort_by.kind = "list"
ListEntries == Range(section_sort_by.list)
NotInData == ListEntries \ DataKeys
NotInPolicy == DataKeys \ ListEntries

\* C6: format_graphic_data raises, and returns neither table, whenever a
\* record has a null section key; no such record reaches the output.
C6_MissingKeyRaises ==
    /\ (Called /\ HasMissingKey) =>
          /\ pc = "raised"
          /\ error.kind = "MissingValues"
          /\ df_element = <<>>
          /\ df_section = <<>>
    /\ \A k \in 1..Len(df_element) : df_element[k].section # Null

C6_Witness ==
    /\ pc = "raised" /\ error.kind = "MissingValues"
    /\ Len(df) >= 2
    /\ \E k \in 1..Len(df) : df[k].section # Null

\* C7: with an explicit list, format_graphic_data succeeds only if the list
\* and the distinct section keys are in bijection; a list entry that is no
\* data key, or a data key absent from the list, raises an error that names
\* offending keys.
C7_ListMustBeBijection ==
    (Called /\ ListPolicy /\ ~HasMissingKey) =>
        /\ pc = "formatted" =>
              /\ ListEntries = DataKeys
              /\ Len(section_sort_by.list) = Cardinality(DataKeys)
        /\ NotInData # {} =>
              /\ pc = "raised"
              /\ error.kind = "SortByNotInData"
              /\ Range(error.values) = NotInData
        /\ (NotInData = {} /\ NotInPolicy # {}) =>
              /\ pc = "raised"
              /\ error.kind = "DataNotInSortBy"
              /\ Range(error.values) = NotInPolicy

C7_Witness ==
    /\ pc = "raised" /\ ListPolicy
    /\ error.kind = "DataNotInSortBy"
    /\ Cardinality(DataKeys) = 2
    /\ Len(section_sort_by.list) = 1
    /\ Len(error.values) = 1

BothDirections ==
    Called /\ ListPolicy /\ ~HasMissingKey /\ NotInData # {} /\ NotInPolicy # {}

\* C8 as stated: when the list mismatches the data in both directions, the
\* error enumerates the keys missing from the policy and the policy entries
\* missing from the data.
C8_ErrorNamesBothSets ==
    BothDirections =>
        /\ pc = "raised"
        /\ Range(error.values) = NotInData \cup NotInPolicy

\* C8 amended: when the list mismatches the data in both directions, the
\* error raised enumerates the policy entries missing from the data only; the
\* keys missing from the policy are not in it.
C8_ErrorNamesListEntriesOnly ==
    BothDirections =>
        /\ pc = "raised"
        /\ error.kind = "SortByNotInData"
        /\ Range(error.values) = NotInData
        /\ Range(error.values) \cap NotInPolicy = {}

C8_Witness ==
    /\ BothDirections
    /\ error.kind = "SortByNotInData"
    /\ Len(section_sort_by.list) >= 2
    /\ Cardinality(NotInData) = 1

\* position of a section in the section table, of an output row in the input
SectionPos(s) == CHOOSE k \in 1..Len(df_section) : df_section[k].section = s
InputPos(p) ==
    CHOOSE k \in 1..Len(df) : df[k].element_title = df_element[p].element_title
IndexIncreasing == \A k \in 2..Len(df) : df[k - 1].index < df[k].index

\* C9: the element table is a permutation of the input records, sorted by
\* section order first and original row index second: sections are
\* contiguous and in the order of the section table, the records of a
\* section are in the order of their row index (their input order, for a
\* table whose index increases), and each section's element count is the
\* number of its records.
C9_ElementsSortedPermutation ==
    pc = "formatted" =>
        /\ Len(df_element) = Len(df)
        /\ \A k \in 1..Len(df) :
              Cardinality({p \in 1..Len(df_element) :
                  df_element[p] =
                      [section |-> df[k].section,
                       element_title |-> df[k].element_title]}) = 1
        /\ {df_section[k].section : k \in 1..Len(df_section)} = DataKeys
        /\ Len(df_section) = Cardinality(DataKeys)
        /\ \A k \in 1..Len(df_section) :
              df_section[k].elements =
                  Cardinality({j \in 1..Len(df) :
                                  df[j].section = df_section[k].section})
        /\ \A p, q \in 1..Len(df_element) :
              p < q =>
                /\ SectionPos(df_element[p].section)
                      <= SectionPos(df_element[q].section)
                /\ df_element[p].section = df_element[q].section =>
                      /\ df[InputPos(p)].index < df[InputPos(q)].index
                      /\ IndexIncreasing => InputPos(p) < InputPos(q)

C9_Witness ==
    /\ pc = "formatted"
    /\ Len(df) = 3 /\ Len(df_section) = 2
    /\ IndexIncreasing
    /\ df[1].section = df[3].section /\ df[1].section # df[2].section
    /\ df_section[1].section = df[2].section

\* the table with its rows back in the order of their labels
Unshuffled(t) ==
    [k \in 1..Len(t) |-> CHOOSE r \in Range(t) : r.index = k - 1]

\* C10: grouping a table and any row-shuffled copy of it gives the same
\* section ordering and the same element ordering (by name, by count or by
\* explicit list).
C10_ShuffleInvariant ==
    pc = "formatted" =>
        LET r == format_graphic_data(Unshuffled(df), elements_per_row,
                                     offset_rows, section_sort_by,
                                     section_sort_order)
        IN  /\ r.error.kind = "none"
            /\ r.df_section = df_section
            /\ r.df_element = df_element

C10_Witness ==
    /\ pc = "formatted"
    /\ Len(df) = 3 /\ Len(df_section) = 2
    /\ df[1].section = df[2].section
    /\ df[1].index > df[2].index
    /\ df_section[1].elements = 1

----------------------------------------------------------------------------
(* draw_element: the subtree of one card.                                  *)
(* Every length of a card is scaled by 2, so that width / 2 and the        *)
(* radius are integers: a value v below stands for v / 2 pixels.           *)

Min(a, b) == IF a <= b THEN a ELSE b
Max(a, b) == IF a >= b THEN a ELSE b

\* circle_radius = min((width - ...) / 2, (height - ...) / 2), scaled by 2
circle_radius_max(a) ==
    Max(a.width - a.margin_dim.left - a.margin_dim.right
          - a.circle_padding_dim.left - a.circle_padding_dim.right,
        a.height - a.margin_dim.top - a.margin_dim.bottom
          - a.circle_padding_dim.top - a.circle_padding_dim.bottom
          - a.title_text_size - a.subtitle_text_size)

circle_radius(a) ==
    Min(a.width - a.margin_dim.left - a.margin_dim.right
          - a.circle_padding_dim.left - a.circle_padding_dim.right,
        a.height - a.margin_dim.top - a.margin_dim.bottom
          - a.circle_padding_dim.top - a.circle_padding_dim.bottom
          - a.title_text_size - a.subtitle_text_size)

\* draw.Circle(cx=x + width / 2, cy=y + margin top + padding top + radius, r)
circle(a) ==
    [cx |-> 2 * a.x + a.width,
     cy |-> 2 * a.y + 2 * a.margin_dim.top + 2 * a.circle_padding_dim.top
              + circle_radius(a),
     r  |-> circle_radius(a)]

\* title_x by text_anchor
title_x(a) ==
    CASE a.text_anchor = "start"  -> 2 * a.x + 2 * a.margin_dim.left
      [] a.text_anchor = "middle" -> 2 * a.x + a.width
      [] a.text_anchor = "end"    -> 2 * a.x + 2 * a.width
                                       - 2 * a.margin_dim.right

\* title_y, subtitle_y, dominant_baseline by title_position
title_y(a) ==
    IF a.title_position = "top"
    THEN 2 * a.y + 2 * a.margin_dim.top
    ELSE 2 * a.y + 2 * a.height - 2 * a.margin_dim.bottom
           - 2 * a.subtitle_text_size

subtitle_y(a) ==
    IF a.title_position = "top"
    THEN 2 * a.y + 2 * a.margin_dim.top + 2 * a.title_text_size
    ELSE 2 * a.y + 2 * a.height - 2 * a.margin_dim.bottom

dominant_baseline(a) == IF a.title_position = "top" THEN "hanging" ELSE "auto"

\* the element group: background, circle, clipped image, title, subtitle
draw_element(a) ==
    [type |-> "Group",
     children |-> <<
       [type |-> "Rectangle", x |-> 2 * a.x, y |-> 2 * a.y,
        width |-> 2 * a.width, height |-> 2 * a.height],
       [type |-> "Circle", cx |-> circle(a).cx, cy |-> circle(a).cy,
        r |-> circle(a).r],
       [type |-> "Image", clip_path |-> circle(a),
        x |-> 2 * a.x + a.width - circle_radius(a),
        y |-> 2 * a.y + 2 * a.margin_dim.top + 2 * a.circle_padding_dim.top,
        width |-> 2 * circle_radius(a), height |-> 2 * circle_radius(a)],
       [type |-> "Text", text |-> "title", x |-> title_x(a),
        y |-> title_y(a), font_size |-> 2 * a.title_text_size,
        text_anchor |-> a.text_anchor,
        dominant_baseline |-> dominant_baseline(a)],
       [type |-> "Text", text |-> "subtitle", x |-> title_x(a),
        y |-> subtitle_y(a), font_size |-> 2 * a.subtitle_text_size,
        text_anchor |-> a.text_anchor,
        dominant_baseline |-> dominant_baseline(a)] >>]

----------------------------------------------------------------------------
(* One call of draw_element, as a program.                                 *)

Sides == {"top", "right", "bottom", "left"}
CardSides == {4, 20, 100}
CardCorners == {<<0, 0>>, <<7, 3>>}
TextSizes == {<<10, 10>>, <<10, 8>>}
PaddingValues == {0, 3}

CardArgs ==
    { [x |-> c[1], y |-> c[2], width |-> w, height |-> h,
       title_text_size |-> t[1], subtitle_text_size |-> t[2],
       title_position |-> tp, text_anchor |-> ta,
       margin_dim |-> m, circle_padding_dim |-> p] :
        c \in CardCorners, w \in CardSides, h \in CardSides, t \in TextSizes,
        tp \in {"top", "bottom"}, ta \in {"start", "middle", "end"},
        m \in [Sides -> 0..MaxMargin], p \in [Sides -> PaddingValues] }

CardInit ==
    /\ pc = "card"
    /\ args \in CardArgs
    /\ scene = <<>>
    /\ error = NoError
    /\ dims = <<>>
    /\ x = 0
    /\ y = 0
    /\ section_i = 0
    /\ element_i = 0
    /\ elements = 0
    /\ elements_per_row = 1
    /\ offset_rows = FALSE
    /\ rows = 0
    /\ sequence = <<>>
    /\ i = 0
    /\ df = <<>>
    /\ section_sort_by = "elements"
    /\ section_sort_order = None
    /\ df_element = <<>>
    /\ df_section = <<>>

DrawCardChecked ==
    /\ pc = "card"
    /\ IF circle_radius(args) <= 0
       THEN /\ error' = [kind |-> "InvalidGeometry", values |-> <<>>]
            /\ scene' = scene
       ELSE /\ error' = error
            /\ scene' = <<draw_element(args)>>
    /\ pc' = "drawn"
    /\ UNCHANGED <<args, dims, x, y, section_i, element_i>>
    /\ UNCHANGED <<elements_per_row, offset_rows>>
    /\ UNCHANGED plannerVars
    /\ UNCHANGED <<df, section_sort_by, section_sort_order, df_element,
                   df_section>>

\* draw_element has no raise statement: it returns the group for every input
DrawCard ==
    /\ pc = "card"
    /\ scene' = <<draw_element(args)>>
    /\ pc' = "drawn"
    /\ UNCHANGED <<args, dims, x, y, section_i, element_i>>
    /\ UNCHANGED <<elements_per_row, offset_rows>>
    /\ UNCHANGED plannerVars
    /\ UNCHANGED groupVars

CardNext == DrawCard

SpecCard == CardInit /\ [][CardNext]_vars

----------------------------------------------------------------------------
(* Claims about draw_element (SpecCard).  Lengths are scaled by 2.         *)

Drawn == pc = "drawn"
CardNode(k) == scene[1].children[k]

\* twice the space left for the radius horizontally and vertically
HorizontalSpace ==
    args.width - args.margin_dim.left - args.margin_dim.right
      - args.circle_padding_dim.left - args.circle_padding_dim.right
VerticalSpace ==
    args.height - args.margin_dim.top - args.margin_dim.bottom
      - args.circle_padding_dim.top - args.circle_padding_dim.bottom
      - args.title_text_size - args.subtitle_text_size

ZeroDim == [s \in Sides |-> 0]
ExampleCard ==
    /\ args.width = 100
    /\ args.height = 100
    /\ args.margin_dim = ZeroDim
    /\ args.circle_padding_dim = ZeroDim
    /\ args.title_text_size = 10
    /\ args.subtitle_text_size = 10

\* C14: the circle radius is the minimum of the horizontal and the vertical
\* space halved; the disc and the clip circle have that radius and the same
\* centre; the image is the circle's bounding square (x = cx - r, y = cy - r,
\* side 2r); a 100x100 card with zero margins and padding and text sizes 10
\* and 10 has radius 40.
C14_CircleGeometry ==
    Drawn =>
        LET disc == CardNode(2)
            img  == CardNode(3)
            clip == CardNode(3).clip_path
        IN  /\ disc.type = "Circle" /\ img.type = "Image"
            /\ disc.r <= HorizontalSpace
            /\ disc.r <= VerticalSpace
            /\ disc.r \in {HorizontalSpace, VerticalSpace}
            /\ clip.r = disc.r /\ clip.cx = disc.cx /\ clip.cy = disc.cy
            /\ img.x = disc.cx - disc.r
            /\ img.y = disc.cy - disc.r
            /\ img.width = 2 * disc.r
            /\ img.height = 2 * disc.r
            /\ ExampleCard => disc.r = 2 * 40

C14_Witness ==
    /\ Drawn
    /\ ExampleCard
    /\ CardNode(2).r = 2 * 40
    /\ CardNode(3).width = 2 * (2 * 40)

\* C15 as stated: a non-positive radius is reported as an error and no card
\* subtree is emitted.
C15_NonPositiveRadiusRejected ==
    (Drawn /\ Min(HorizontalSpace, VerticalSpace) <= 0) =>
        /\ error # NoError
        /\ scene = <<>>

\* C15: draw_element makes no check of the radius: with a non-positive
\* radius it raises nothing and returns the whole card subtree (background,
\* disc, clipped image, title, subtitle), the disc and the clip circle
\* carrying the non-positive radius.
C15_NonPositiveRadiusDrawn ==
    (Drawn /\ Min(HorizontalSpace, VerticalSpace) <= 0) =>
        /\ error = NoError
        /\ Len(scene) = 1
        /\ Len(scene[1].children) = 5
        /\ CardNode(2).r = Min(HorizontalSpace, VerticalSpace)
        /\ CardNode(3).clip_path.r = CardNode(2).r
        /\ CardNode(2).r <= 0

C15_Witness ==
    /\ Drawn
    /\ Min(HorizontalSpace, VerticalSpace) < 0
    /\ error = NoError
    /\ Len(scene[1].children) = 5
    /\ CardNode(2).r < 0

\* vertical band of the two text rows: hanging baselines hang the rows below
\* title_y and subtitle_y; auto baselines sit the rows on them
TextBandTop ==
    IF args.title_position = "top"
    THEN CardNode(4).y
    ELSE Min(CardNode(4).y - CardNode(4).font_size,
             CardNode(5).y - CardNode(5).font_size)
TextBandBottom ==
    IF args.title_position = "top"
    THEN Max(CardNode(4).y + CardNode(4).font_size,
             CardNode(5).y + CardNode(5).font_size)
    ELSE CardNode(5).y

\* C16: for both title positions the circle's vertical extent
\* [cy - r, cy + r] does not intersect the band of the title and subtitle
\* rows.
C16_CircleClearOfText ==
    (Drawn /\ CardNode(2).r > 0) =>
        \/ CardNode(2).cy + CardNode(2).r <= TextBandTop
        \/ TextBandBottom <= CardNode(2).cy - CardNode(2).r

----------------------------------------------------------------------------
(* lay_out_body: merge handling, dimensions, section heads and pointers.   *)
(* Lengths are in pixels.  A section table row is                          *)
(*   [section |-> name, elements |-> count, rows |-> planned rows].        *)

RECURSIVE Sum(_)
Sum(s) == IF s = <<>> THEN 0 ELSE s[1] + Sum(Tail(s))

\* df_section.loc[df_section['section'].isin(merge_sections)]
isin(sections, merge) ==
    SelectSeq(sections, LAMBDA r : r.section \in Range(merge))

\* if section_head_position == 'top' and merge_sections:
merge_requested_any_position(position, merge) == merge # <<>>

merge_requested(position, merge) == position = "top" /\ merge # <<>>

merge_sections_elements(sections, merge) ==
    Sum(Column(isin(sections, merge), "elements"))

\* the two checks of the merge handling, in the order of the code
merge_error_overflow_only(sections, merge, n) ==
    IF merge_sections_elements(sections, merge) > n
    THEN [kind |-> "MergeOverflow",
          values |-> <<merge_sections_elements(sections, merge), n>>]
    ELSE NoError

merge_error(sections, merge, n) ==
    IF merge_sections_elements(sections, merge) > n
    THEN [kind |-> "MergeOverflow",
          values |-> <<merge_sections_elements(sections, merge), n>>]
    ELSE IF Column(isin(sections, merge), "section") # merge
    THEN [kind |-> "MergeOrder", values |-> <<>>]
    ELSE NoError

\* -(-sum // elements_per_row) on a numpy integer: division by zero yields 0
\* (with a warning), not an exception
merge_rows_final(sections, merge, n) ==
    IF n = 0 THEN 0
    ELSE -((-merge_sections_elements(sections, merge)) \div n)

total_rows(sections, position, merge, n) ==
    IF merge_requested(position, merge)
    THEN Sum(Column(sections, "rows"))
           - Sum(Column(isin(sections, merge), "rows"))
           + merge_rows_final(sections, merge, n)
    ELSE Sum(Column(sections, "rows"))

section_heads(sections, position, merge) ==
    IF merge_requested(position, merge)
    THEN Len(sections) - Len(merge) + 1
    ELSE Len(sections)

\* draw_area_dim and body_height
draw_area_dim(a, sections, n) ==
    [width  |-> body_width - draw_area_margin_left - draw_area_margin_right,
     height |->
        IF a.section_head_position = "left"
        THEN total_rows(sections, a.section_head_position,
                        a.merge_sections, n) * a.element_height
        ELSE total_rows(sections, a.section_head_position,
                        a.merge_sections, n) * a.element_height
               + section_heads(sections, a.section_head_position,
                               a.merge_sections) * a.section_head_height]

body_height(a, sections, n) ==
    draw_area_dim(a, sections, n).height
      + draw_area_margin_top + draw_area_margin_bottom

\* left_section_head_dim, top_section_head_dim, section_head_dim,
\* section_body_dim of one section
left_section_head_dim(a, row) ==
    IF a.section_head_position = "left"
    THEN [width |-> a.section_head_width,
          height |-> row.rows * a.element_height]
    ELSE [width |-> 0, height |-> 0]

top_section_head_dim(a, row) ==
    IF a.section_head_position = "left"
    THEN [width |-> 0, height |-> 0]
    ELSE [width |-> section_body_width, height |-> a.section_head_height]

section_head_dim(a, row) ==
    [width  |-> left_section_head_dim(a, row).width
                  + top_section_head_dim(a, row).width,
     height |-> left_section_head_dim(a, row).height
                  + top_section_head_dim(a, row).height]

section_body_dim(a, row) ==
    [width  |-> section_body_width - left_section_head_dim(a, row).width,
     height |-> row.rows * a.element_height]

\* colour of the head text: dict with fallback, or the one string
text_color(a, row) ==
    IF a.section_head_text_color.dict
    THEN IF row.section \in a.section_head_text_color.keys
         THEN <<"color of", row.section>>
         ELSE <<"black">>
    ELSE <<a.section_head_text_color.color>>

\* circle_stroke_color=section_head_text_color[element_row['section']] and
\* the call draw_element(..., text_color='black', ...): indexing a string by
\* a name is a TypeError, a missing key a KeyError, and draw_element has no
\* parameter text_color (and is not given title_text_color and
\* subtitle_text_color), which is a TypeError
draw_element_call_error(a, row) ==
    IF ~a.section_head_text_color.dict
    THEN [kind |-> "TypeError", values |-> <<"string indices">>]
    ELSE IF row.section \notin a.section_head_text_color.keys
    THEN [kind |-> "KeyError", values |-> <<row.section>>]
    ELSE [kind |-> "TypeError", values |-> <<"text_color">>]

----------------------------------------------------------------------------
(* format_graphic_data's row planning followed by lay_out_body, as a       *)
(* program over a grouped section table.  A section may have no element    *)
(* (an unused category of a categorical section column is counted as 0).   *)

SectionNames == <<"A", "B", "C">>
PerRowChoices == {0, 2, 5}
MergeLists ==
    {m \in UNION {[1..l -> Keys] : l \in 0..2} : TRUE} \cup {<<"A", "B", "C">>}
ColourSources ==
    {[dict |-> FALSE, keys |-> {}, color |-> "purple"],
     [dict |-> TRUE, keys |-> Keys, color |-> ""],
     [dict |-> TRUE, keys |-> {"A"}, color |-> ""]}

SectionTables ==
    UNION {{[k \in 1..l |-> [section |-> SectionNames[k], elements |-> c[k]]] :
              c \in [1..l -> 0..MaxCount]} : l \in 1..Len(SectionNames)}

LayOutArgs ==
    [section_head_position : {"top", "left"},
     section_head_width : {section_head_width},
     section_head_height : {section_head_height},
     section_head_text_color : ColourSources,
     element_height : {0, element_height},
     merge_sections : MergeLists]

LayoutInit ==
    /\ pc = "layout"
    /\ df_section \in SectionTables
    /\ elements_per_row \in PerRowChoices
    /\ offset_rows \in BOOLEAN
    /\ args \in LayOutArgs
    /\ dims = <<>>
    /\ x = 0
    /\ y = 0
    /\ section_i = 0
    /\ element_i = 0
    /\ scene = <<>>
    /\ error = NoError
    /\ elements = 0
    /\ rows = 0
    /\ sequence = <<>>
    /\ i = 0
    /\ df = <<>>
    /\ section_sort_by = "elements"
    /\ section_sort_order = None
    /\ df_element = <<>>

layoutFixed == <<elements, rows, sequence, i, df, section_sort_by,
                 section_sort_order, df_element, offset_rows,
                 elements_per_row, args>>

\* df_section['rows'] = ...: the Regular lambda divides Python integers, so
\* elements_per_row = 0 is a ZeroDivisionError; calculate_offset_rows divides
\* by 2 * elements_per_row - 1
PlanSectionRows ==
    /\ pc = "layout"
    /\ IF ~offset_rows /\ elements_per_row = 0
       THEN /\ error' = [kind |-> "ZeroDivisionError",
                        values |-> <<"rows">>]
            /\ pc' = "raised"
            /\ UNCHANGED df_section
       ELSE /\ df_section' = add_rows(df_section, elements_per_row,
                                      offset_rows)
            /\ pc' = "rows"
            /\ UNCHANGED error
    /\ UNCHANGED <<dims, x, y, section_i, element_i, scene>>
    /\ UNCHANGED layoutFixed

\* lay_out_body up to the section loop: merge checks, dimensions, body,
\* background, draw_area, x = y = 0
LayOutSetup ==
    /\ pc = "rows"
    /\ IF /\ merge_requested(args.section_head_position, args.merge_sections)
          /\ merge_error(df_section, args.merge_sections,
                         elements_per_row) # NoError
       THEN /\ error' = merge_error(df_section, args.merge_sections,
                                    elements_per_row)
            /\ pc' = "raised"
            /\ UNCHANGED <<dims, scene, section_i>>
       ELSE /\ dims' =
                 [total_rows |-> total_rows(df_section,
                                            args.section_head_position,
                                            args.merge_sections,
                                            elements_per_row),
                  section_heads |-> section_heads(df_section,
                                                  args.section_head_position,
                                                  args.merge_sections),
                  draw_area_dim |-> draw_area_dim(args, df_section,
                                                  elements_per_row),
                  body_height |-> body_height(args, df_section,
                                              elements_per_row)]
            /\ scene' = <<[type |-> "Rectangle", parent |-> "body",
                           section |-> None, x |-> 0, y |-> 0,
                           width |-> body_width,
                           height |-> body_height(args, df_section,
                                                  elements_per_row)]>>
            /\ section_i' = 1
            /\ pc' = "section"
            /\ UNCHANGED error
    /\ x' = 0
    /\ y' = 0
    /\ UNCHANGED <<df_section, element_i>>
    /\ UNCHANGED layoutFixed

\* the row of df_section the section loop is at
row == df_section[section_i]

\* one pass of the section loop up to the element loop: dimensions, head
\* rectangle, head text, pointers.  element_dim['width'] divides by
\* elements_per_row: 0 is a ZeroDivisionError
SectionHead ==
    /\ pc = "section"
    /\ IF elements_per_row = 0
       THEN /\ error' = [kind |-> "ZeroDivisionError",
                        values |-> <<"element_dim">>]
            /\ pc' = "raised"
            /\ UNCHANGED <<scene, x, y>>
       ELSE /\ scene' = scene \o
                 <<[type |-> "Rectangle", parent |-> "draw_area",
                    section |-> row.section, x |-> x, y |-> y,
                    width |-> section_head_dim(args, row).width - x,
                    height |-> section_head_dim(args, row).height],
                   [type |-> "Text", parent |-> "draw_area",
                    section |-> row.section,
                    x |-> x + section_head_padding_left,
                    y |-> y + section_head_padding_top
                            + section_head_text_size,
                    fill |-> text_color(args, row)]>>
            /\ x' = x + left_section_head_dim(args, row).width
            /\ y' = y + top_section_head_dim(args, row).height
            /\ pc' = "elements"
            /\ UNCHANGED error
    /\ element_i' = 0
    /\ UNCHANGED <<df_section, dims, section_i>>
    /\ UNCHANGED layoutFixed

\* first pass of the element loop: element_i += 1, then the draw_element
\* call, which raises before anything is appended
DrawElement ==
    /\ pc = "elements"
    /\ element_i < row.elements
    /\ element_i' = element_i + 1
    /\ error' = draw_element_call_error(args, row)
    /\ pc' = "raised"
    /\ UNCHANGED <<df_section, dims, x, y, section_i, scene>>
    /\ UNCHANGED layoutFixed

\* is the section one of merge_sections, under top heads
merged(a, r) ==
    a.section_head_position = "top" /\ r.section \in Range(a.merge_sections)

\* after the element loop: y past the body, rolled back for a merged
\* section; x reset, or advanced by element_i card widths for a merged
\* section (element_i cards of width section body width / elements_per_row:
\* the loop ends normally only with element_i = 0, so the quotient is exact)
SectionEnd ==
    /\ pc = "elements"
    /\ element_i = row.elements
    /\ y' = IF merged(args, row)
            THEN y + section_body_dim(args, row).height
                   - top_section_head_dim(args, row).height
                   - section_body_dim(args, row).height
            ELSE y + section_body_dim(args, row).height
    /\ x' = IF merged(args, row)
            THEN x + (element_i * section_body_dim(args, row).width)
                       \div elements_per_row
            ELSE 0
    /\ section_i' = section_i + 1
    /\ pc' = IF section_i = Len(df_section) THEN "append" ELSE "section"
    /\ UNCHANGED <<df_section, dims, element_i, scene, error>>
    /\ UNCHANGED layoutFixed

\* body.append(draw_area); return body
Return ==
    /\ pc = "append"
    /\ scene' = Append(scene,
                       [type |-> "Group", parent |-> "body",
                        section |-> None,
                        x |-> draw_area_margin_left,
                        y |-> draw_area_margin_top])
    /\ pc' = "done"
    /\ UNCHANGED <<df_section, dims, x, y, section_i, element_i, error>>
    /\ UNCHANGED layoutFixed

LayoutNext ==
    \/ PlanSectionRows
    \/ LayOutSetup
    \/ SectionHead
    \/ DrawElement
    \/ SectionEnd
    \/ Return

SpecLayout == LayoutInit /\ [][LayoutNext]_vars

----------------------------------------------------------------------------
(* Claims about lay_out_body (SpecLayout).                                 *)

Finished == pc \in {"done", "raised"}

\* the row planner raised: lay_out_body was never called
RowsRaised == pc = "raised" /\ error.values = <<"rows">>

\* lay_out_body went through its merge handling
PastMergeHandling == pc \notin {"layout", "rows"} /\ ~RowsRaised

MergeRejected ==
    pc = "raised" /\ error.kind \in {"MergeOverflow", "MergeOrder"}

TopHeads == args.section_head_position = "top"
MergeSet == args.merge_sections

SectionCounts == [k \in 1..Len(df_section) |-> df_section[k].elements]
TableNames == [k \in 1..Len(df_section) |-> df_section[k].section]
TablePos(s) == CHOOSE k \in 1..Len(df_section) : df_section[k].section = s

\* combined element count of the sections the Merge Set names
MergedCount ==
    Sum([k \in 1..Len(df_section) |->
            IF df_section[k].section \in Range(MergeSet)
            THEN df_section[k].elements ELSE 0])

\* the cards of a section in the scene, in drawing order
CardsOf(s) ==
    SelectSeq(scene, LAMBDA nd : /\ nd.type = "Group"
                                 /\ nd.parent = "draw_area"
                                 /\ nd.section = s)
HeadOf(s) ==
    SelectSeq(scene, LAMBDA nd : /\ nd.type = "Rectangle"
                                 /\ nd.parent = "draw_area"
                                 /\ nd.section = s)
LabelOf(s) ==
    SelectSeq(scene, LAMBDA nd : nd.type = "Text" /\ nd.section = s)

\* C11: with top heads and a Merge Set, the overflow error is raised, before
\* any scene node exists, exactly when the merged sections' combined count
\* exceeds elements_per_row; counts [1,1,1] with elements_per_row = 5 are
\* accepted and laid out on one row of 3 cards; counts [3,3] with
\* elements_per_row = 5 are rejected.
C11_MergeOverflow ==
    (Finished /\ PastMergeHandling /\ TopHeads /\ MergeSet # <<>>) =>
        /\ (MergedCount > elements_per_row) <=>
              (pc = "raised" /\ error.kind = "MergeOverflow" /\ scene = <<>>)
        /\ (/\ SectionCounts = <<1, 1, 1>>
            /\ MergeSet = <<"A", "B", "C">>
            /\ elements_per_row = 5
            /\ args.element_height > 0) =>
              /\ pc = "done"
              /\ error = NoError
              /\ \A s \in Keys : Len(CardsOf(s)) = 1
              /\ \A s \in Keys : CardsOf(s)[1].y = CardsOf("A")[1].y
        /\ (/\ SectionCounts = <<3, 3>>
            /\ MergeSet = <<"A", "B">>
            /\ elements_per_row = 5) =>
              (pc = "raised" /\ error.kind = "MergeOverflow")

\* the Merge Set is exactly the list of its sections in table order: every
\* name is in the table, and the names come in strictly increasing table
\* position (so none is repeated)
MergeSetInTableOrder ==
    /\ \A j \in 1..Len(MergeSet) : MergeSet[j] \in Range(TableNames)
    /\ \A j \in 1..Len(MergeSet) : \A k \in (j + 1)..Len(MergeSet) :
          TablePos(MergeSet[j]) < TablePos(MergeSet[k])

\* C12: with top heads, a Merge Set that is not exactly the list of its
\* sections in table order (wrong order, repeated name, absent name) makes
\* lay_out_body raise before any scene node exists; a Merge Set is accepted
\* only if its sections appear in the table in exactly the given order.
C12_MergeOrderChecked ==
    (PastMergeHandling /\ TopHeads /\ MergeSet # <<>>) =>
        /\ ~MergeSetInTableOrder => (MergeRejected /\ scene = <<>>)
        /\ (~MergeSetInTableOrder /\ MergedCount <= elements_per_row) =>
              error.kind = "MergeOrder"
        /\ ~MergeRejected => (MergeSetInTableOrder /\ scene # <<>>)

C12_Witness ==
    /\ pc = "raised"
    /\ TopHeads
    /\ MergeSet = <<"B", "A">>
    /\ TableNames = <<"A", "B">>
    /\ elements_per_row = 5
    /\ error.kind = "MergeOrder"
    /\ scene = <<>>

InvalidConfiguration ==
    \/ elements_per_row <= 0
    \/ args.element_height <= 0
    \/ (args.section_head_position = "left" /\ MergeSet # <<>>)

\* C13 as stated: a non-positive elements_per_row, a non-positive card
\* height, or a Merge Set with left heads is rejected with an error before
\* any scene output is produced.
C13_InvalidConfigRejected ==
    (Finished /\ InvalidConfiguration) => (pc = "raised" /\ scene = <<>>)

Background == scene[1]
SetUp == PastMergeHandling /\ ~MergeRejected

\* C13: none of the three is validated.  With left heads a Merge Set is
\* ignored: no merge check is made and the row and head counts are those of
\* the table.  A non-positive card height is used as given in the drawing
\* area height.  elements_per_row = 0 ends in a ZeroDivisionError: from the
\* Regular row planner, or from lay_out_body at the first section, after the
\* body and its background were created (unless a merge check raised first).
C13_NoConfigValidation ==
    /\ (PastMergeHandling /\ ~TopHeads /\ MergeSet # <<>>) =>
          /\ ~MergeRejected
          /\ dims.total_rows = Sum(Column(df_section, "rows"))
          /\ dims.section_heads = Len(df_section)
          /\ Background.parent = "body"
    /\ (SetUp /\ args.element_height <= 0) =>
          /\ dims.draw_area_dim.height =
                dims.total_rows * args.element_height
                  + (IF TopHeads
                     THEN dims.section_heads * args.section_head_height
                     ELSE 0)
          /\ Background.height =
                dims.draw_area_dim.height + draw_area_margin_top
                  + draw_area_margin_bottom
    /\ (Finished /\ elements_per_row = 0) =>
          /\ pc = "raised"
          /\ ~offset_rows =>
                (error.kind = "ZeroDivisionError" /\ RowsRaised)
          /\ offset_rows =>
                \/ MergeRejected /\ TopHeads /\ MergeSet # <<>>
                \/ /\ error.kind = "ZeroDivisionError"
                   /\ scene = <<Background>>
                   /\ Background.parent = "body"

C13_Witness ==
    /\ pc = "elements"
    /\ error = NoError
    /\ args.element_height = 0
    /\ args.section_head_position = "left"
    /\ MergeSet = <<"B", "A">>
    /\ SectionCounts = <<3, 3>>
    /\ elements_per_row = 5
    /\ Len(scene) = 3
    /\ Background.height = draw_area_margin_top + draw_area_margin_bottom

\* the colour the claim gives the head label of a section
ResolvedColour(s) ==
    IF args.section_head_text_color.dict
    THEN IF s \in args.section_head_text_color.keys
         THEN <<"color of", s>>
         ELSE <<"black">>
    ELSE <<args.section_head_text_color.color>>

\* every section has its head label and all its cards in the scene
AllDrawn ==
    \A k \in 1..Len(df_section) :
        /\ Len(LabelOf(df_section[k].section)) = 1
        /\ Len(CardsOf(df_section[k].section)) = df_section[k].elements

\* C17: whether the colour source is one global colour or a lookup table,
\* with or without the section in it, every section gets its colour (the
\* fallback when it is absent from the table) and lay_out_body completes the
\* section, head label and all cards, without raising an error.
C17_ColourResolved ==
    (Finished /\ SetUp /\ elements_per_row > 0) =>
        /\ pc = "done"
        /\ error = NoError
        /\ AllDrawn
        /\ \A k \in 1..Len(df_section) :
              LabelOf(df_section[k].section)[1].fill
                = ResolvedColour(df_section[k].section)

\* geometry the claims refer to, without merges: the x where a section's
\* cards start, the width of its body, the y of the top of its body
SectionX == IF TopHeads THEN 0 ELSE args.section_head_width
BodyWidth == section_body_width - SectionX
RowsBefore(k) == Sum([j \in 1..(k - 1) |-> df_section[j].rows])
BodyTop(k) ==
    IF TopHeads
    THEN k * args.section_head_height + RowsBefore(k) * args.element_height
    ELSE RowsBefore(k) * args.element_height

\* C18: in Regular mode the k-th card (k = 0, 1, ...) of a section is at
\* x = section_x + (k mod N) * card_width, y = body_top + (k div N) *
\* card_height with card_width = body width / N; a section of e cards gets
\* ceil(e / N) rows, and the first card of a section is at the top of its
\* body (for the second of two sections under top heads:
\* 2 * head_height + rows of the first * card_height).
\* x is compared after multiplying by N.
C18_RegularPositions ==
    (/\ Finished /\ SetUp /\ ~offset_rows /\ MergeSet = <<>>
     /\ elements_per_row > 0 /\ args.element_height > 0) =>
        /\ error = NoError
        /\ AllDrawn
        /\ \A s \in 1..Len(df_section) :
              /\ df_section[s].rows * elements_per_row
                    >= df_section[s].elements
              /\ (df_section[s].rows - 1) * elements_per_row
                    < df_section[s].elements
              /\ \A k \in 0..(df_section[s].elements - 1) :
                    LET card == CardsOf(df_section[s].section)[k + 1]
                    IN  /\ elements_per_row * card.x =
                              elements_per_row * SectionX
                                + (k % elements_per_row) * BodyWidth
                        /\ card.y = BodyTop(s)
                              + (k \div elements_per_row)
                                  * args.element_height

\* row and column of the k-th card (k = 0, 1, ...) of an Offset section:
\* rows of N and N - 1 cards alternate
OffsetRow(k, n) ==
    IF k % (2 * n - 1) < n
    THEN 2 * (k \div (2 * n - 1))
    ELSE 2 * (k \div (2 * n - 1)) + 1
OffsetColumn(k, n) ==
    IF k % (2 * n - 1) < n
    THEN k % (2 * n - 1)
    ELSE (k % (2 * n - 1)) - n

\* C19: in Offset mode with N >= 2, the 1st, 3rd, ... row of a section holds
\* N cards starting at section_x, the 2nd, 4th, ... row holds N - 1 cards
\* starting at section_x + card_width / 2; cards of a row are card_width
\* apart, every row break advances y by card_height, and every card lies
\* inside the body (x + card_width <= section_x + N * card_width, row index
\* below the section's row count).  x is compared after multiplying by 2N.
C19_OffsetPositions ==
    (/\ Finished /\ SetUp /\ offset_rows /\ MergeSet = <<>>
     /\ elements_per_row >= 2 /\ args.element_height > 0) =>
        /\ error = NoError
        /\ AllDrawn
        /\ \A s \in 1..Len(df_section) :
              \A k \in 0..(df_section[s].elements - 1) :
                 LET card == CardsOf(df_section[s].section)[k + 1]
                     r == OffsetRow(k, elements_per_row)
                     c == OffsetColumn(k, elements_per_row)
                 IN  /\ 2 * elements_per_row * card.x =
                           2 * elements_per_row * SectionX
                             + (2 * c + (r % 2)) * BodyWidth
                     /\ card.y = BodyTop(s) + r * args.element_height
                     /\ 2 * c + (r % 2) + 2 <= 2 * elements_per_row
                     /\ r < df_section[s].rows

\* element count of the merged sections that precede section s in the
\* Merge Set
MergedBefore(s) ==
    Sum([j \in 1..Len(MergeSet) |->
            IF \E t \in 1..Len(df_section) :
                  /\ df_section[t].section = MergeSet[j]
                  /\ j < ListIndex(MergeSet, s) + 1
            THEN df_section[TablePos(MergeSet[j])].elements
            ELSE 0])

\* C20: with top heads, for every Merge Set that passes validation, the
\* merged sections start at the same row: their heads have the same y,
\* their cards have the same y, and the cards of the j-th merged section
\* start at x = card_width * (element count of the merged sections before
\* it).  x is compared after multiplying by N.
C20_MergedShareRow ==
    (/\ Finished /\ SetUp /\ TopHeads /\ MergeSet # <<>>
     /\ elements_per_row > 0 /\ args.element_height > 0) =>
        /\ error = NoError
        /\ AllDrawn
        /\ \A s \in Range(MergeSet) : \A t \in Range(MergeSet) :
              /\ Len(HeadOf(s)) = 1
              /\ HeadOf(s)[1].y = HeadOf(t)[1].y
              /\ \A k \in 1..Len(CardsOf(s)) : \A l \in 1..Len(CardsOf(t)) :
                    CardsOf(s)[k].y = CardsOf(t)[l].y
              /\ \A k \in 1..Len(CardsOf(s)) :
                    elements_per_row * CardsOf(s)[k].x =
                        (MergedBefore(s) + k - 1) * section_body_width

\* all cards in the scene, in drawing order
AllCards ==
    SelectSeq(scene, LAMBDA nd : nd.type = "Group" /\ nd.parent = "draw_area")

Abs(v) == IF v < 0 THEN -v ELSE v

MergedRows ==
    Sum([k \in 1..Len(df_section) |->
            IF df_section[k].section \in Range(MergeSet)
            THEN df_section[k].rows ELSE 0])

\* drawing-area height the claim gives for a validated Merge Set
MergedAreaHeight ==
    (Sum([k \in 1..Len(df_section) |-> df_section[k].rows]) - MergedRows
       + CeilDiv(MergedCount, elements_per_row)) * args.element_height
      + (Len(df_section) - Len(MergeSet) + 1) * args.section_head_height

\* y of the bottom of section k: its head, then its planned rows
SectionBottom(k) ==
    HeadOf(df_section[k].section)[1].y + args.section_head_height
      + df_section[k].rows * args.element_height

\* lay_out_body gives the drawing area that height
AreaHeightAsClaimed ==
    (SetUp /\ TopHeads /\ MergeSet # <<>> /\ elements_per_row > 0) =>
        dims.draw_area_dim.height = MergedAreaHeight

\* C21: with top heads and a Merge Set that passes validation, the
\* drawing-area height is (sum of rows - merged sections' rows +
\* ceil(merged count / N)) * card_height + (sections - merge set size + 1)
\* * head_height; every card rectangle lies inside the drawing area, no two
\* card rectangles overlap, and every section outside the Merge Set starts
\* at x = 0 at or below the bottom of every section placed before it.
\* x is compared after multiplying by N.
C21_MergedLayoutFits ==
    (/\ Finished /\ SetUp /\ TopHeads /\ MergeSet # <<>>
     /\ elements_per_row > 0 /\ args.element_height > 0) =>
        /\ dims.draw_area_dim.height = MergedAreaHeight
        /\ error = NoError
        /\ AllDrawn
        /\ \A k \in 1..Len(AllCards) :
              /\ AllCards[k].x >= 0
              /\ elements_per_row * AllCards[k].x + section_body_width
                    <= elements_per_row * dims.draw_area_dim.width
              /\ AllCards[k].y + args.element_height
                    <= dims.draw_area_dim.height
        /\ \A k \in 1..Len(AllCards) : \A l \in (k + 1)..Len(AllCards) :
              \/ elements_per_row * Abs(AllCards[k].x - AllCards[l].x)
                    >= section_body_width
              \/ Abs(AllCards[k].y - AllCards[l].y) >= args.element_height
        /\ \A k \in 1..Len(df_section) :
              df_section[k].section \notin Range(MergeSet) =>
                  /\ HeadOf(df_section[k].section)[1].x = 0
                  /\ \A j \in 1..(k - 1) :
                        HeadOf(df_section[k].section)[1].y
                          >= SectionBottom(j)

\* y where section k starts when sections tile the drawing area: the end of
\* the body of section k - 1
SectionStart(k) ==
    IF TopHeads
    THEN (k - 1) * args.section_head_height
           + RowsBefore(k) * args.element_height
    ELSE RowsBefore(k) * args.element_height

\* the head of section k is where and as large as the tiling says
HeadTiles(k) ==
    LET head == HeadOf(df_section[k].section)[1]
    IN  /\ head.x = 0
        /\ head.y = SectionStart(k)
        /\ IF TopHeads
           THEN /\ head.height = args.section_head_height
                /\ head.width = dims.draw_area_dim.width
           ELSE /\ head.width = args.section_head_width
                /\ head.height = df_section[k].rows * args.element_height

\* C22: with no Merge Set, in both head orientations and both flow modes
\* (N >= 2 in Offset mode), the sections tile the drawing area vertically:
\* each section starts at x = 0 at the y where the previous body ended; with
\* left heads the head has the head width and the height of the body
\* (rows * card_height) and the body the remaining width; with top heads the
\* head has the head height and the full drawing-area width; every card
\* lies inside the body of its section; after the last section the y
\* pointer equals the drawing-area height.
\* x is compared after multiplying by N.
C22_SectionsTile ==
    (/\ Finished /\ SetUp /\ MergeSet = <<>>
     /\ elements_per_row > 0 /\ (offset_rows => elements_per_row >= 2)
     /\ args.element_height > 0) =>
        /\ pc = "done"
        /\ error = NoError
        /\ AllDrawn
        /\ y = dims.draw_area_dim.height
        /\ \A k \in 1..Len(df_section) :
              /\ Len(HeadOf(df_section[k].section)) = 1
              /\ HeadTiles(k)
              /\ \A c \in 1..Len(CardsOf(df_section[k].section)) :
                    LET card == CardsOf(df_section[k].section)[c]
                    IN  /\ card.x >= SectionX
                        /\ elements_per_row * card.x + BodyWidth
                              <= elements_per_row * (SectionX + BodyWidth)
                        /\ card.y >= BodyTop(k)
                        /\ card.y + args.element_height
                              <= BodyTop(k)
                                   + df_section[k].rows * args.element_height

====
